---- MODULE Spec2Model ----
(***************************************************************************)
(* DesignerDNA, designer_dna/_oligos.pyx: the sequence kernel.             *)
(*                                                                         *)
(* Every public function is a stateless transform of one input sequence.  *)
(* The model draws the sequence in Init and has one action per public     *)
(* function; the action draws the remaining arguments (dna, n) and, where  *)
(* the code can read past the end of its buffer, the bytes that lie there. *)
(* Buffer positions are 0-based as in the source; TLA+ sequences are       *)
(* 1-based, so buffer position j is element j + 1.                         *)
(***************************************************************************)
EXTENDS Integers, Sequences, FiniteSets, TLC

VARIABLES sequence, op, dna, n, tail, pc, ret_str, ret_int, span, raised, reads, heap,
          compared

vars == <<sequence, op, dna, n, tail, pc, ret_str, ret_int, span, raised, reads, heap,
          compared>>

(***************************************************************************)
(* Bounds of the model.                                                    *)
(***************************************************************************)
MaxLen == 4
MaxN == 2
MaxNeg == 2

Max(a, b) == IF a > b THEN a ELSE b

(***************************************************************************)
(* Symbols and translation tables (oligos.h is not part of the sources;   *)
(* the tables follow spec 4.1 and the docstrings of complement).           *)
(***************************************************************************)
Alphabet == {"A", "C", "G", "T", "U", "N"}
Bytes == Alphabet \cup {"NUL"}

DNA(b) ==
    CASE b = "A" -> "T"
      [] b = "T" -> "A"
      [] b = "C" -> "G"
      [] b = "G" -> "C"
      [] OTHER -> b

RNA(b) ==
    CASE b = "A" -> "U"
      [] b = "U" -> "A"
      [] b = "T" -> "A"
      [] b = "C" -> "G"
      [] b = "G" -> "C"
      [] OTHER -> b

table(d, b) == IF d THEN DNA(b) ELSE RNA(b)

(***************************************************************************)
(* Inputs: every sequence over Alphabet up to MaxLen symbols, and the     *)
(* sequences of the docstring examples.                                    *)
(***************************************************************************)
DocExamples ==
    { <<"A","T","A","T","A","T">>, <<"A","A","T","A","T","A">>,
      <<"A","C","A","A","C","A","A","C","A">>, <<"G","A","T","A","T","G">> }

Seqs(k) == UNION { [1..m -> Alphabet] : m \in 0..k }
Inputs == Seqs(MaxLen) \cup DocExamples
NRange == (0 - MaxNeg)..MaxN

(***************************************************************************)
(* SequenceBuffer: str_to_view copies the input into an owned buffer of   *)
(* the input's length (common.pxd is not part of the sources; spec 3).    *)
(* A read at a position >= the length returns whatever byte lies there:   *)
(* the bytes past the end are drawn by the calling action (tl).            *)
(***************************************************************************)
str_to_view(s) == s
ReadAt(buf, tl, j) == IF j < Len(buf) THEN buf[j + 1] ELSE tl[j - Len(buf) + 1]
Tails(k) == [1..k -> Bytes]

(***************************************************************************)
(* Heap bookkeeping: malloc and free of the buffers a call owns.           *)
(***************************************************************************)
Buffers == {"view", "seq", "com", "previous"}
NoHeap == [b \in Buffers |-> "unallocated"]
Malloc(h, b) == [h EXCEPT ![b] = IF h[b] = "allocated" THEN "leaked" ELSE "allocated"]
Free(h, b) ==
    [h EXCEPT ![b] = CASE h[b] = "allocated" -> "freed"
                       [] h[b] = "freed" -> "double_freed"
                       [] OTHER -> h[b]]

(***************************************************************************)
(* reverse, complement, reverse_complement                                 *)
(***************************************************************************)
\* sequence[::-1]
reverse(s) == [i \in 1..Len(s) |-> s[Len(s) + 1 - i]]

\* c_reverse: the body of `for start in range(x)`, a simultaneous swap.
RECURSIVE c_reverse_loop_noTemp(_, _, _)
c_reverse_loop_noTemp(buf, start, length) ==
    IF start >= length \div 2 THEN buf
    ELSE LET end == length - start - 1
             b1 == [buf EXCEPT ![start + 1] = buf[end + 1]]
             b2 == [b1 EXCEPT ![end + 1] = b1[start + 1]]
         IN c_reverse_loop_noTemp(b2, start + 1, length)

RECURSIVE c_reverse_loop(_, _, _)
c_reverse_loop(buf, start, length) ==
    IF start >= length \div 2 THEN buf
    ELSE LET end == length - start - 1
         IN c_reverse_loop([buf EXCEPT ![start + 1] = buf[end + 1],
                                       ![end + 1] = buf[start + 1]],
                           start + 1, length)

c_reverse(buf, length) == c_reverse_loop(buf, 0, length)

\* m_reverse reverses the caller's buffer in place; the value is the buffer after.
m_reverse(buf) == c_reverse(buf, Len(buf))

\* c_complement with a plausible slip: the right end translated from the
\* (already translated) left end.
RECURSIVE c_complement_loop_staleRead(_, _, _, _)
c_complement_loop_staleRead(buf, j, length, d) ==
    IF j >= length \div 2 THEN buf
    ELSE LET end == (length - 1) - j
             b1 == [buf EXCEPT ![j + 1] = table(d, buf[j + 1])]
             b2 == [b1 EXCEPT ![end + 1] = table(d, b1[j + 1])]
         IN c_complement_loop_staleRead(b2, j + 1, length, d)

RECURSIVE c_complement_loop(_, _, _, _)
c_complement_loop(buf, j, length, d) ==
    IF j >= length \div 2 THEN buf
    ELSE LET end == (length - 1) - j
             b1 == [buf EXCEPT ![j + 1] = table(d, buf[j + 1])]
             b2 == [b1 EXCEPT ![end + 1] = table(d, b1[end + 1])]
         IN c_complement_loop(b2, j + 1, length, d)

c_complement_noMiddle(buf, length, d) == c_complement_loop(buf, 0, length, d)

c_complement(buf, length, d) ==
    LET idx == length \div 2
        b == c_complement_loop(buf, 0, length, d)
    IN IF length % 2 = 1 THEN [b EXCEPT ![idx + 1] = table(d, b[idx + 1])] ELSE b

\* The buffer positions c_complement reads (and rewrites).
c_complement_reads(length) ==
    LET idx == length \div 2
    IN UNION { {j, (length - 1) - j} : j \in 0..(idx - 1) }
         \cup (IF length % 2 = 1 THEN {idx} ELSE {})

v_complement(view, d) == c_complement(view, Len(view), d)

complement(s, d) == v_complement(str_to_view(s), d)

\* The while loop of c_reverse_complement: lo is `sequence`, hi is `end_ptr`,
\* both as offsets into the buffer.
RECURSIVE c_reverse_complement_loop(_, _, _, _)
c_reverse_complement_loop(buf, lo, hi, d) ==
    IF hi > lo
    THEN LET b == [buf EXCEPT ![lo + 1] = table(d, buf[hi + 1]),
                              ![hi + 1] = table(d, buf[lo + 1])]
         IN c_reverse_complement_loop(b, lo + 1, hi - 1, d)
    ELSE [buf |-> buf, lo |-> lo]

c_reverse_complement_noMiddle(buf, length, d) ==
    c_reverse_complement_loop(buf, 0, length - 1, d).buf

c_reverse_complement(buf, length, d) ==
    LET r == c_reverse_complement_loop(buf, 0, length - 1, d)
    IN IF length % 2 = 1
       THEN [r.buf EXCEPT ![r.lo + 1] = table(d, r.buf[r.lo + 1])]
       ELSE r.buf

v_reverse_complement(view, d) == c_reverse_complement(view, Len(view), d)

reverse_complement(s, d) == v_reverse_complement(str_to_view(s), d)

(***************************************************************************)
(* palindrome                                                              *)
(***************************************************************************)
\* _center: expand left/right while both sides pair; rd collects the buffer
\* positions read.
RECURSIVE _center_oneSided(_, _, _, _, _, _)
_center_oneSided(seq, comp, left, right, length, rd) ==
    IF left > -1 /\ right < length
    THEN IF seq[left + 1] # comp[right + 1]
         THEN [left |-> left + 1, right |-> right, rd |-> rd \cup {left, right}]
         ELSE _center_oneSided(seq, comp, left - 1, right + 1, length, rd \cup {left, right})
    ELSE [left |-> left + 1, right |-> right, rd |-> rd]

RECURSIVE _center(_, _, _, _, _, _)
_center(seq, comp, left, right, length, rd) ==
    IF left > -1 /\ right < length
    THEN IF seq[left + 1] # comp[right + 1] \/ seq[right + 1] # comp[left + 1]
         THEN [left |-> left + 1, right |-> right, rd |-> rd \cup {left, right}]
         ELSE _center(seq, comp, left - 1, right + 1, length, rd \cup {left, right})
    ELSE [left |-> left + 1, right |-> right, rd |-> rd]

\* best is [length, start, end]
_update_bounds_orEqual(left, right, best) ==
    IF right - left >= best.length
    THEN [length |-> right - left, start |-> left, end |-> right]
    ELSE best

_update_bounds(left, right, best) ==
    IF right - left > best.length
    THEN [length |-> right - left, start |-> left, end |-> right]
    ELSE best

\* Variants of the loop with a plausible slip: no odd centres; the last position
\* taken as a centre too; odd centres expanded whatever the centre symbol.
RECURSIVE palindrome_loop_evenOnly(_, _, _, _, _)
palindrome_loop_evenOnly(seq, com, i, best, rd) ==
    IF i >= Len(seq) - 1 THEN [best |-> best, rd |-> rd]
    ELSE LET even == _center(seq, com, i, i + 1, Len(seq), rd)
             b1 == _update_bounds(even.left, even.right, best)
         IN palindrome_loop_evenOnly(seq, com, i + 1, b1, even.rd \cup {i})

RECURSIVE palindrome_loop_allCentres(_, _, _, _, _)
palindrome_loop_allCentres(seq, com, i, best, rd) ==
    IF i >= Len(seq) THEN [best |-> best, rd |-> rd]
    ELSE LET even == _center(seq, com, i, i + 1, Len(seq), rd)
             b1 == _update_bounds(even.left, even.right, best)
             rd1 == even.rd \cup {i}
         IN IF seq[i + 1] # com[i + 1]
            THEN palindrome_loop_allCentres(seq, com, i + 1, b1, rd1)
            ELSE LET odd == _center(seq, com, i - 1, i + 1, Len(seq), rd1)
                     b2 == _update_bounds(odd.left, odd.right, b1)
                 IN palindrome_loop_allCentres(seq, com, i + 1, b2, odd.rd)

RECURSIVE palindrome_loop_alwaysOdd(_, _, _, _, _)
palindrome_loop_alwaysOdd(seq, com, i, best, rd) ==
    IF i >= Len(seq) - 1 THEN [best |-> best, rd |-> rd]
    ELSE LET even == _center(seq, com, i, i + 1, Len(seq), rd)
             b1 == _update_bounds(even.left, even.right, best)
             odd == _center(seq, com, i - 1, i + 1, Len(seq), even.rd \cup {i})
             b2 == _update_bounds(odd.left, odd.right, b1)
         IN palindrome_loop_alwaysOdd(seq, com, i + 1, b2, odd.rd)

\* The body of `for i in range(seq.size - 1)`, from centre i on.
RECURSIVE palindrome_loop(_, _, _, _, _)
palindrome_loop(seq, com, i, best, rd) ==
    IF i >= Len(seq) - 1 THEN [best |-> best, rd |-> rd]
    ELSE LET even == _center(seq, com, i, i + 1, Len(seq), rd)
             b1 == _update_bounds(even.left, even.right, best)
             rd1 == even.rd \cup {i}
         IN IF seq[i + 1] # com[i + 1]
            THEN palindrome_loop(seq, com, i + 1, b1, rd1)
            ELSE LET odd == _center(seq, com, i - 1, i + 1, Len(seq), rd1)
                     b2 == _update_bounds(odd.left, odd.right, b1)
                 IN palindrome_loop(seq, com, i + 1, b2, odd.rd)

\* [start, end, rd, str]: the span, the positions read, sequence[start:end].
\* The complement pass over com (line 347) reads every position of the copy.
palindrome(s, d) ==
    LET seq == str_to_view(s)
        com == v_complement(str_to_view(s), d)
        r == palindrome_loop(seq, com, 0, [length |-> 0, start |-> 0, end |-> 0],
                 c_complement_reads(Len(seq)))
    IN [start |-> r.best.start, end |-> r.best.end, rd |-> r.rd,
        str |-> SubSeq(s, r.best.start + 1, r.best.end)]

(***************************************************************************)
(* palindrome, second implementation (even centres only)                   *)
(***************************************************************************)
\* [str, rd]: seq[left + 1 : right] after the expansion, and the positions read.
RECURSIVE _expand_from_center(_, _, _, _, _, _)
_expand_from_center(seq, comp, left, right, length, rd) ==
    IF /\ left > -1
       /\ right < length
       /\ seq[left + 1] = comp[right + 1]
       /\ seq[right + 1] = comp[left + 1]
    THEN _expand_from_center(seq, comp, left - 1, right + 1, length, rd \cup {left, right})
    ELSE [str |-> SubSeq(seq, left + 2, right),
          rd |-> IF left > -1 /\ right < length THEN rd \cup {left, right} ELSE rd]

\* acc is [pal, length, rd]; the body of `for i in range(seq_length - 1)`.
RECURSIVE palindrome2_loop(_, _, _, _, _)
palindrome2_loop(temp, comp, seq_length, i, acc) ==
    IF i >= seq_length - 1 THEN acc
    ELSE LET even == _expand_from_center(temp, comp, i, i + 1, seq_length, acc.rd)
             current == Len(even.str)
         IN palindrome2_loop(temp, comp, seq_length, i + 1,
                IF current > acc.length
                THEN [pal |-> even.str, length |-> current, rd |-> even.rd]
                ELSE [pal |-> acc.pal, length |-> acc.length, rd |-> even.rd])

\* [str, rd]: comp is computed in the declarations, before the length test.
palindrome2(s, d) ==
    LET temp == s
        comp == complement(s, d)
        seq_length == Len(s)
        rd0 == c_complement_reads(seq_length)
    IN IF seq_length < 2 THEN [str |-> <<>>, rd |-> rd0]
       ELSE LET r == palindrome2_loop(temp, comp, seq_length, 0,
                         [pal |-> <<>>, length |-> 0, rd |-> rd0])
            IN [str |-> r.pal, rd |-> r.rd]

(***************************************************************************)
(* stretch                                                                 *)
(***************************************************************************)
\* st is [prev, current, longest]; the body of `for j in range(1, view.size)`.
RECURSIVE stretch_loop_noReset(_, _, _)
stretch_loop_noReset(view, j, st) ==
    IF j >= Len(view) THEN st
    ELSE IF view[j + 1] = st.prev
         THEN stretch_loop_noReset(view, j + 1,
                  [prev |-> st.prev, current |-> st.current + 1,
                   longest |-> Max(st.longest, st.current + 1)])
         ELSE stretch_loop_noReset(view, j + 1,
                  [prev |-> view[j + 1], current |-> st.current, longest |-> st.longest])

RECURSIVE stretch_loop(_, _, _)
stretch_loop(view, j, st) ==
    IF j >= Len(view) THEN st
    ELSE IF view[j + 1] = st.prev
         THEN stretch_loop(view, j + 1,
                  [prev |-> st.prev, current |-> st.current + 1,
                   longest |-> Max(st.longest, st.current + 1)])
         ELSE stretch_loop(view, j + 1,
                  [prev |-> view[j + 1], current |-> 0, longest |-> st.longest])

\* [longest, rd]
stretch_fromZero(s, tl) ==
    LET view == str_to_view(s)
        r == stretch_loop(view, 0, [prev |-> ReadAt(view, tl, 0), current |-> 0, longest |-> 0])
    IN [longest |-> r.longest, rd |-> {0} \cup 1..(Len(view) - 1)]

\* [longest, rd]: `prev = view.ptr[0]` is read before the loop, whatever the size.
stretch(s, tl) ==
    LET view == str_to_view(s)
        r == stretch_loop(view, 1, [prev |-> ReadAt(view, tl, 0), current |-> 0, longest |-> 0])
    IN [longest |-> r.longest, rd |-> {0} \cup 1..(Len(view) - 1)]

\* The bytes past the end that stretch can read.
stretch_TailLen(length) == IF length = 0 THEN 1 ELSE 0

\* c_stretch: st is [prev, current, longest]; the body of `for j in range(1, length)`.
RECURSIVE c_stretch_loop(_, _, _, _)
c_stretch_loop(buf, length, j, st) ==
    IF j >= length THEN st
    ELSE IF buf[j + 1] = st.prev
         THEN c_stretch_loop(buf, length, j + 1,
                  [prev |-> st.prev, current |-> st.current + 1,
                   longest |-> IF st.current + 1 > st.longest
                               THEN st.current + 1 ELSE st.longest])
         ELSE c_stretch_loop(buf, length, j + 1,
                  [prev |-> buf[j + 1], current |-> 0, longest |-> st.longest])

\* [longest, rd]
c_stretch(buf, tl, length) ==
    LET r == c_stretch_loop(buf, length, 1,
                 [prev |-> ReadAt(buf, tl, 0), current |-> 0, longest |-> 0])
    IN [longest |-> r.longest, rd |-> {0} \cup 1..(length - 1)]

\* m_stretch works on the caller's buffer: nothing is allocated.
m_stretch(buf, tl) == c_stretch(buf, tl, Len(buf))

(***************************************************************************)
(* nrepeats                                                                *)
(***************************************************************************)
\* Python's floor division, for a divisor that is not 0.
FloorDiv(a, b) ==
    IF b > 0 THEN a \div b
    ELSE 0 - (((a + (0 - b)) - 1) \div (0 - b))

\* _compare: p[start:end] against q, stopping at the first mismatch.
\* [eq, rd, cmp]: the verdict, the positions of p read, and the positions of p
\* in the order their symbols were compared (one entry per `p[j] != q[count]`).
RECURSIVE _compare_from(_, _, _, _, _, _, _, _)
_compare_from(p, tl, q, j, end, count, rd, cmp) ==
    IF j >= end THEN [eq |-> TRUE, rd |-> rd, cmp |-> cmp]
    ELSE IF ReadAt(p, tl, j) # q[count + 1]
         THEN [eq |-> FALSE, rd |-> rd \cup {j}, cmp |-> Append(cmp, j)]
         ELSE _compare_from(p, tl, q, j + 1, end, count + 1, rd \cup {j}, Append(cmp, j))

_compare(p, tl, q, start, end) == _compare_from(p, tl, q, start, end, 0, {}, <<>>)

\* _assign: dest[0 : end - start] = src[start:end]. [dest, rd]
_assign(src, tl, start, end) ==
    [dest |-> [c \in 1..(end - start) |-> ReadAt(src, tl, start + c - 1)],
     rd |-> start..(end - 1)]

\* st is [previous, current, max_val, rd, cmp]; the body of `for j in range(1, v)`.
RECURSIVE c_nrepeats_blocks(_, _, _, _, _, _, _)
c_nrepeats_blocks(mem, tl, t, v, k, j, st) ==
    IF j >= v THEN st
    ELSE LET c == _compare(mem, tl, st.previous, j * t + k, j * t + k + t)
         IN IF c.eq
            THEN c_nrepeats_blocks(mem, tl, t, v, k, j + 1,
                     [previous |-> st.previous, current |-> st.current + 1,
                      max_val |-> Max(st.max_val, st.current + 1),
                      rd |-> st.rd \cup c.rd, cmp |-> st.cmp \o c.cmp])
            ELSE LET a == _assign(mem, tl, j * t + k, j * t + k + t)
                 IN c_nrepeats_blocks(mem, tl, t, v, k, j + 1,
                        [previous |-> a.dest, current |-> 0, max_val |-> st.max_val,
                         rd |-> st.rd \cup c.rd \cup a.rd, cmp |-> st.cmp \o c.cmp])

\* acc is [max_val, rd, cmp]; the body of `for k in range(t)`.
\* Variant with a plausible slip: the block loop starts at block 0.
RECURSIVE c_nrepeats_phases_fromZero(_, _, _, _, _, _)
c_nrepeats_phases_fromZero(mem, tl, t, v, k, acc) ==
    IF k >= t THEN acc
    ELSE LET a == _assign(mem, tl, k, t + k)
             r == c_nrepeats_blocks(mem, tl, t, v, k, 0,
                      [previous |-> a.dest, current |-> 0, max_val |-> acc.max_val,
                       rd |-> acc.rd \cup a.rd, cmp |-> acc.cmp])
         IN c_nrepeats_phases_fromZero(mem, tl, t, v, k + 1,
                [max_val |-> r.max_val, rd |-> r.rd, cmp |-> r.cmp])

RECURSIVE c_nrepeats_phases(_, _, _, _, _, _)
c_nrepeats_phases(mem, tl, t, v, k, acc) ==
    IF k >= t THEN acc
    ELSE LET a == _assign(mem, tl, k, t + k)
             r == c_nrepeats_blocks(mem, tl, t, v, k, 1,
                      [previous |-> a.dest, current |-> 0, max_val |-> acc.max_val,
                       rd |-> acc.rd \cup a.rd, cmp |-> acc.cmp])
         IN c_nrepeats_phases(mem, tl, t, v, k + 1,
                [max_val |-> r.max_val, rd |-> r.rd, cmp |-> r.cmp])

\* [max_val, rd, cmp, malloc]. With n = 0 the division `length // t` raises
\* ZeroDivisionError before `previous` is allocated; the function is noexcept, so
\* the exception is reported as unraisable and the function returns 0.
\* malloc says whether malloc(t + 1) gave a block (a negative size gives none).
c_nrepeats(mem, tl, length, m) ==
    IF m = 0 THEN [max_val |-> 0, rd |-> {}, cmp |-> <<>>, malloc |-> FALSE]
    ELSE LET t == m
             v == FloorDiv(length, t)
             r == c_nrepeats_phases(mem, tl, t, v, 0,
                      [max_val |-> 0, rd |-> {}, cmp |-> <<>>])
         IN [max_val |-> r.max_val, rd |-> r.rd, cmp |-> r.cmp, malloc |-> (t + 1 >= 0)]

\* The bytes past the end that c_nrepeats can read: its last block of phase t - 1
\* ends at (max(v, 1) - 1) * t + (t - 1) + t - 1.
nrepeats_TailLen(length, m) ==
    IF m < 1 THEN 0
    ELSE LET v == length \div m
         IN Max(0, ((Max(v, 1) - 1) * m + (m - 1) + m) - length)

\* [max_val, rd, cmp, raised, heap]
nrepeats(s, m, tl, h) ==
    LET view == str_to_view(s)
        r == c_nrepeats(view, tl, Len(view), m)
        h1 == Malloc(h, "view")
        h2 == IF r.malloc THEN Free(Malloc(h1, "previous"), "previous") ELSE h1
    IN [max_val |-> r.max_val, rd |-> r.rd, cmp |-> r.cmp, raised |-> "none",
        heap |-> Free(h2, "view")]

(***************************************************************************)
(* nrepeats, second implementation (one counter and one reference block   *)
(* per phase, scanning block by block)                                     *)
(***************************************************************************)
\* view.ptr[a:b] as bytes
Slice(mem, tl, a, b) == [c \in 1..(b - a) |-> ReadAt(mem, tl, a + c - 1)]

\* st is [previous, current, max_val]: previous and current are indexed by phase.
RECURSIVE nrepeats2_phases(_, _, _, _, _, _)
nrepeats2_phases(mem, tl, t, j, k, st) ==
    IF k >= t THEN st
    ELSE LET phase == Slice(mem, tl, j * t + k, j * t + k + t)
         IN IF phase = st.previous[k]
            THEN nrepeats2_phases(mem, tl, t, j, k + 1,
                     [previous |-> st.previous,
                      current |-> [st.current EXCEPT ![k] = @ + 1],
                      max_val |-> Max(st.max_val, st.current[k] + 1)])
            ELSE nrepeats2_phases(mem, tl, t, j, k + 1,
                     [previous |-> [st.previous EXCEPT ![k] = phase],
                      current |-> [st.current EXCEPT ![k] = 0],
                      max_val |-> st.max_val])

RECURSIVE nrepeats2_blocks(_, _, _, _, _, _)
nrepeats2_blocks(mem, tl, t, v, j, st) ==
    IF j >= v THEN st
    ELSE nrepeats2_blocks(mem, tl, t, v, j + 1, nrepeats2_phases(mem, tl, t, j, 0, st))

\* [max_val, rd, raised, heap]. With n = 0 the division `view.size // t` raises
\* ZeroDivisionError after str_to_view and before free(view.ptr).
nrepeats2(s, m, tl, h) ==
    LET view == str_to_view(s)
        h1 == Malloc(h, "view")
    IN IF m = 0
       THEN [max_val |-> 0, rd |-> {}, raised |-> "ZeroDivisionError", heap |-> h1]
       ELSE LET t == m
                v == FloorDiv(Len(view), t)
                st0 == [previous |-> [i \in 0..(t - 1) |-> Slice(view, tl, i, t + i)],
                        current |-> [i \in 0..(t - 1) |-> 0],
                        max_val |-> 0]
                r == nrepeats2_blocks(view, tl, t, v, 1, st0)
                rd == UNION { (j * t + k)..(j * t + k + t - 1) :
                                j \in 0..(Max(v, 1) - 1), k \in 0..(t - 1) }
            IN [max_val |-> r.max_val, rd |-> rd, raised |-> "none",
                heap |-> Free(h1, "view")]

(***************************************************************************)
(* State machine                                                           *)
(***************************************************************************)
Init ==
    /\ sequence \in Inputs
    /\ op = "none"
    /\ dna = TRUE
    /\ n = 1
    /\ tail = <<>>
    /\ pc = "idle"
    /\ ret_str = <<>>
    /\ ret_int = 0
    /\ span = <<0, 0>>
    /\ raised = "none"
    /\ reads = {}
    /\ heap = NoHeap
    /\ compared = <<>>

Call_reverse ==
    /\ pc = "idle"
    /\ ret_str' = reverse(sequence)
    /\ op' = "reverse"
    /\ pc' = "done"
    /\ UNCHANGED <<sequence, dna, n, tail, ret_int, span, raised, reads, heap, compared>>

Call_m_reverse ==
    /\ pc = "idle"
    /\ ret_str' = m_reverse(sequence)
    /\ op' = "m_reverse"
    /\ pc' = "done"
    /\ UNCHANGED <<sequence, dna, n, tail, ret_int, span, raised, reads, heap, compared>>

Call_complement ==
    /\ pc = "idle"
    /\ \E d \in BOOLEAN :
        /\ dna' = d
        /\ ret_str' = complement(sequence, d)
    /\ op' = "complement"
    /\ pc' = "done"
    /\ UNCHANGED <<sequence, n, tail, ret_int, span, raised, reads, heap, compared>>

Call_reverse_complement ==
    /\ pc = "idle"
    /\ \E d \in BOOLEAN :
        /\ dna' = d
        /\ ret_str' = reverse_complement(sequence, d)
    /\ op' = "reverse_complement"
    /\ pc' = "done"
    /\ UNCHANGED <<sequence, n, tail, ret_int, span, raised, reads, heap, compared>>

Call_palindrome ==
    /\ pc = "idle"
    /\ \E d \in BOOLEAN :
        LET r == palindrome(sequence, d)
        IN /\ dna' = d
           /\ ret_str' = r.str
           /\ span' = <<r.start, r.end>>
           /\ reads' = r.rd
    /\ heap' = Free(Free(Malloc(Malloc(heap, "seq"), "com"), "seq"), "com")
    /\ op' = "palindrome"
    /\ pc' = "done"
    /\ UNCHANGED <<sequence, n, tail, ret_int, raised, compared>>

Call_palindrome2 ==
    /\ pc = "idle"
    /\ \E d \in BOOLEAN :
        LET r == palindrome2(sequence, d)
        IN /\ dna' = d
           /\ ret_str' = r.str
           /\ reads' = r.rd
    /\ op' = "palindrome2"
    /\ pc' = "done"
    /\ UNCHANGED <<sequence, n, tail, ret_int, span, raised, heap, compared>>

Call_stretch ==
    /\ pc = "idle"
    /\ \E tl \in Tails(stretch_TailLen(Len(sequence))) :
        LET r == stretch(sequence, tl)
        IN /\ tail' = tl
           /\ ret_int' = r.longest
           /\ reads' = r.rd
    /\ heap' = Free(Malloc(heap, "view"), "view")
    /\ op' = "stretch"
    /\ pc' = "done"
    /\ UNCHANGED <<sequence, dna, n, ret_str, span, raised, compared>>

Call_m_stretch ==
    /\ pc = "idle"
    /\ \E tl \in Tails(stretch_TailLen(Len(sequence))) :
        LET r == m_stretch(sequence, tl)
        IN /\ tail' = tl
           /\ ret_int' = r.longest
           /\ reads' = r.rd
    /\ op' = "m_stretch"
    /\ pc' = "done"
    /\ UNCHANGED <<sequence, dna, n, ret_str, span, raised, heap, compared>>

Call_nrepeats ==
    /\ pc = "idle"
    /\ \E m \in NRange :
        \E tl \in Tails(nrepeats_TailLen(Len(sequence), m)) :
            LET r == nrepeats(sequence, m, tl, heap)
            IN /\ n' = m
               /\ tail' = tl
               /\ ret_int' = r.max_val
               /\ reads' = r.rd
               /\ compared' = r.cmp
               /\ raised' = r.raised
               /\ heap' = r.heap
    /\ op' = "nrepeats"
    /\ pc' = "done"
    /\ UNCHANGED <<sequence, dna, ret_str, span>>

Call_nrepeats2 ==
    /\ pc = "idle"
    /\ \E m \in NRange :
        \E tl \in Tails(nrepeats_TailLen(Len(sequence), m)) :
            LET r == nrepeats2(sequence, m, tl, heap)
            IN /\ n' = m
               /\ tail' = tl
               /\ ret_int' = r.max_val
               /\ reads' = r.rd
               /\ raised' = r.raised
               /\ heap' = r.heap
    /\ op' = "nrepeats2"
    /\ pc' = "done"
    /\ UNCHANGED <<sequence, dna, ret_str, span, compared>>

Next ==
    \/ Call_reverse
    \/ Call_m_reverse
    \/ Call_complement
    \/ Call_reverse_complement
    \/ Call_palindrome
    \/ Call_palindrome2
    \/ Call_stretch
    \/ Call_m_stretch
    \/ Call_nrepeats
    \/ Call_nrepeats2

Spec == Init /\ [][Next]_vars

(***************************************************************************)
(* Properties                                                              *)
(***************************************************************************)
Done(o) == pc = "done" /\ op = o
InBounds == 0..(Len(sequence) - 1)

\* s[i:j) equals its own reverse complement under the table d selects.
Qualifies(s, d, i, j) ==
    \A k \in 0..(j - i - 1) : s[i + k + 1] = table(d, s[(j - 1 - k) + 1])

Spans(s) == { sp \in (0..Len(s)) \X (0..Len(s)) : sp[1] <= sp[2] }
QualifyingSpans(s, d) == { sp \in Spans(s) : Qualifies(s, d, sp[1], sp[2]) }
LongestSpans(s, d) ==
    { sp \in QualifyingSpans(s, d) :
        \A other \in QualifyingSpans(s, d) : other[2] - other[1] <= sp[2] - sp[1] }

\* C1: palindrome(s, dna) returns a longest substring that equals its own reverse
\* complement: no qualifying substring of s is strictly longer than the result,
\* self-complementary symbols (N) at any position included.
C1_PalindromeIsLongest ==
    Done("palindrome") =>
        \A sp \in QualifyingSpans(sequence, dna) : sp[2] - sp[1] <= Len(ret_str)

\* C2: the span [start, end) palindrome returns lies inside the sequence, the
\* result is the original sequence at that span, and every offset d of the span
\* pairs: s[start + d] = complement(s, dna)[end - 1 - d].
C2_PalindromeSpanPairs ==
    Done("palindrome") =>
        LET start == span[1]
            end == span[2]
            comp == complement(sequence, dna)
        IN /\ 0 <= start /\ start <= end /\ end <= Len(sequence)
           /\ ret_str = [k \in 1..(end - start) |-> sequence[start + k]]
           /\ \A k \in 0..(end - start - 1) :
                  sequence[start + k + 1] = comp[(end - 1 - k) + 1]

C2_Witness ==
    /\ Done("palindrome")
    /\ span[1] >= 1
    /\ span[2] - span[1] >= 2
    /\ span[2] < Len(sequence)
    /\ ~dna

\* C3: the fused reverse_complement(s, dna) equals reverse(complement(s, dna));
\* for odd length the middle symbol is complemented in place.
C3_FusedEqualsTwoStep ==
    Done("reverse_complement") =>
        /\ ret_str = reverse(complement(sequence, dna))
        /\ Len(sequence) % 2 = 1 =>
               LET mid == (Len(sequence) \div 2) + 1
               IN ret_str[mid] = table(dna, sequence[mid])

C3_Witness ==
    /\ Done("reverse_complement")
    /\ Len(sequence) = 3
    /\ ~dna
    /\ ret_str[2] # sequence[2]
    /\ ret_str[1] # table(dna, sequence[1])

\* C4: nrepeats(s, n) fails with an invalid-argument error (ValueError), giving
\* no integer result, for every n < 1.
C4_NrepeatsRejectsNonPositive ==
    (Done("nrepeats") /\ n < 1) => raised = "ValueError"

\* C5: stretch on the empty and on a single-symbol sequence returns 0 and reads
\* no buffer position outside [0, length).
C5_StretchShortInput ==
    (Done("stretch") /\ Len(sequence) <= 1) =>
        /\ ret_int = 0
        /\ reads \subseteq InBounds

\* C6: for n >= 1, nrepeats only copies or compares blocks that lie in
\* [0, len(s)).
C6_NrepeatsBlocksInside ==
    (Done("nrepeats") /\ n >= 1) => reads \subseteq InBounds

\* The run lengths c for which c + 1 consecutive equal blocks of m symbols lie in s.
TandemRuns(s, m) ==
    { c \in 0..Len(s) :
        \E p \in 0..Len(s) :
            /\ p + (c + 1) * m <= Len(s)
            /\ \A i \in 0..(c * m - 1) : s[p + i + 1] = s[p + i + m + 1] }
MaxTandem(s, m) ==
    LET runs == TandemRuns(s, m) \cup {0}
    IN CHOOSE c \in runs : \A e \in runs : e <= c

\* C7: for n >= 1, nrepeats(s, n) is the largest c for which c + 1 consecutive
\* identical blocks of n symbols lie inside s (0 when there is none).
C7_NrepeatsIsMaxTandem ==
    (Done("nrepeats") /\ n >= 1) => ret_int = MaxTandem(sequence, n)

\* C8: nrepeats(s, 1) = stretch(s) for every s, the empty sequence included.
C8_NrepeatsOneIsStretch ==
    /\ (Done("nrepeats") /\ n = 1) =>
           \A tl \in Tails(stretch_TailLen(Len(sequence))) :
               ret_int = stretch(sequence, tl).longest
    /\ Done("stretch") =>
           \A tl \in Tails(nrepeats_TailLen(Len(sequence), 1)) :
               ret_int = nrepeats(sequence, 1, tl, NoHeap).max_val

C8_Witness ==
    /\ Done("nrepeats")
    /\ n = 1
    /\ Len(sequence) = 4
    /\ ret_int = 1
    /\ sequence[1] # sequence[2]
    /\ sequence[3] = sequence[4]

\* C9: when several qualifying spans share the maximal length, palindrome
\* returns the one with the smallest start index.
C9_PalindromeLeftmostTie ==
    Done("palindrome") =>
        LET longest == LongestSpans(sequence, dna)
        IN Cardinality(longest) >= 2 =>
               /\ span \in longest
               /\ \A sp \in longest : span[1] <= sp[1]

C9_Witness ==
    /\ Done("palindrome")
    /\ Cardinality(LongestSpans(sequence, dna)) >= 2
    /\ span[2] - span[1] = 2
    /\ \E sp \in LongestSpans(sequence, dna) : sp[1] = span[1] + 1

\* C10: palindrome, stretch and nrepeats release every buffer they allocate
\* exactly once before they return, on every exit path, n < 1 included.
C10_BuffersReleased ==
    (pc = "done" /\ op \in {"palindrome", "stretch", "nrepeats", "nrepeats2"}) =>
        \A b \in Buffers : heap[b] \in {"unallocated", "freed"}

\* The length of the longest run of one repeated symbol in s (0 for the empty s).
RunLengths(s) ==
    { c \in 1..Len(s) :
        \E p \in 0..(Len(s) - c) : \A i \in 1..c : s[p + i] = s[p + 1] }
LongestRun(s) ==
    LET runs == RunLengths(s) \cup {0}
    IN CHOOSE c \in runs : \A e \in runs : e <= c

\* C11: for every non-empty s, stretch(s) is the length of the longest run of one
\* repeated symbol minus 1; stretch("ATATAT") = 0 and stretch("AATATA") = 1.
C11_StretchIsLongestRunMinusOne ==
    ((Done("stretch") \/ Done("m_stretch")) /\ Len(sequence) >= 1) =>
        /\ ret_int = LongestRun(sequence) - 1
        /\ sequence = <<"A", "T", "A", "T", "A", "T">> => ret_int = 0
        /\ sequence = <<"A", "A", "T", "A", "T", "A">> => ret_int = 1

C11_Witness ==
    /\ Done("stretch")
    /\ sequence = <<"A", "A", "T", "A", "T", "A">>
    /\ ret_int = 1
    /\ LongestRun(sequence) = 2

\* C12: palindrome("ATAT") = "ATAT", palindrome("GATATG") = "ATAT",
\* palindrome("ANT") = "ANT" and palindrome("UGCA", dna = False) = "UGCA".
C12_PalindromeExamples ==
    Done("palindrome") =>
        /\ (dna /\ sequence = <<"A", "T", "A", "T">>) => ret_str = <<"A", "T", "A", "T">>
        /\ (dna /\ sequence = <<"G", "A", "T", "A", "T", "G">>) =>
               ret_str = <<"A", "T", "A", "T">>
        /\ (dna /\ sequence = <<"A", "N", "T">>) => ret_str = <<"A", "N", "T">>
        /\ (~dna /\ sequence = <<"U", "G", "C", "A">>) => ret_str = <<"U", "G", "C", "A">>

C12_Witness ==
    /\ Done("palindrome")
    /\ dna
    /\ sequence = <<"A", "N", "T">>
    /\ span = <<0, 3>>

\* C13 as stated: palindrome returns the empty sequence for every s of length 0
\* or 1 and both values of dna, and reads no buffer position in doing so.
C13_ShortInputReadsNothing ==
    ((Done("palindrome") \/ Done("palindrome2")) /\ Len(sequence) <= 1) =>
        /\ ret_str = <<>>
        /\ reads = {}

\* C13 as amended: palindrome returns the empty sequence for every s of length 0
\* or 1 and both values of dna; no centre is expanded, and the only buffer
\* position read is position 0 of a single-symbol sequence, by the complement
\* pass (no position outside [0, length)).
C13_ShortInputEmptyResult ==
    ((Done("palindrome") \/ Done("palindrome2")) /\ Len(sequence) <= 1) =>
        /\ ret_str = <<>>
        /\ reads = InBounds
        /\ Done("palindrome") => span = <<0, 0>>

C13_Witness ==
    /\ Done("palindrome")
    /\ sequence = <<"N">>
    /\ ret_str = <<>>
    /\ reads = {0}

\* The canonical bases of the table dna selects.
Canonical(d) == IF d THEN {"A", "C", "G", "T"} ELSE {"A", "C", "G", "U"}
IsCanonical(s, d) == \A i \in 1..Len(s) : s[i] \in Canonical(d)

\* C14: complement(complement(s, dna), dna) = s for every s over the canonical
\* alphabet of the selected table.
C14_ComplementInvolution ==
    (Done("complement") /\ IsCanonical(sequence, dna)) =>
        complement(ret_str, dna) = sequence

C14_Witness ==
    /\ Done("complement")
    /\ ~dna
    /\ Len(sequence) = 3
    /\ IsCanonical(sequence, dna)
    /\ \A i \in 1..3 : ret_str[i] # sequence[i]
    /\ sequence[1] # sequence[3]

\* C15: complement(s, dna) has the length of s and at every position the table
\* complement of the symbol of s there; complement("ATGC", True) = "TACG" and
\* complement("ATGC", False) = "UACG".
C15_ComplementPositionwise ==
    Done("complement") =>
        /\ Len(ret_str) = Len(sequence)
        /\ \A i \in 1..Len(sequence) : ret_str[i] = table(dna, sequence[i])
        /\ (sequence = <<"A", "T", "G", "C">> /\ dna) => ret_str = <<"T", "A", "C", "G">>
        /\ (sequence = <<"A", "T", "G", "C">> /\ ~dna) => ret_str = <<"U", "A", "C", "G">>

C15_Witness ==
    /\ Done("complement")
    /\ sequence = <<"A", "T", "G">>
    /\ ~dna
    /\ ret_str = <<"U", "A", "C">>

\* C16: reverse(reverse(s)) = s, for the value-returning reverse and for the
\* in-place c_reverse applied twice to the same buffer.
C16_ReverseInvolution ==
    /\ Done("reverse") => reverse(ret_str) = sequence
    /\ Done("m_reverse") => m_reverse(ret_str) = sequence

C16_Witness ==
    /\ Done("m_reverse")
    /\ Len(sequence) = 3
    /\ sequence[1] # sequence[3]
    /\ ret_str[1] = sequence[3]
    /\ ret_str[2] = sequence[2]

\* C17: for every DNA sequence s over {A, C, G, T, N}, palindrome(s) and
\* palindrome(reverse_complement(s)) have the same length.
C17_PalindromeStrandSymmetric ==
    (Done("palindrome") /\ dna /\ \A i \in 1..Len(sequence) :
                                      sequence[i] \in {"A", "C", "G", "T", "N"}) =>
        Len(ret_str) = Len(palindrome(reverse_complement(sequence, TRUE), TRUE).str)

\* C18: c_nrepeats (phase by phase) and the second nrepeats (block by block)
\* return the same value for every sequence s and every n >= 1.
C18_NrepeatsImplementationsAgree ==
    (Done("nrepeats") /\ n >= 1) =>
        \A tl \in Tails(nrepeats_TailLen(Len(sequence), n)) :
            ret_int = nrepeats2(sequence, n, tl, NoHeap).max_val

\* No symbol of s is its own complement under the table d selects.
NoSelfComplement(s, d) == \A i \in 1..Len(s) : table(d, s[i]) # s[i]

\* C19: for every s in which no symbol is its own complement under the selected
\* table, palindrome (with the odd-centre expansion) and the even-centre-only
\* second implementation return the same substring.
C19_PalindromeImplementationsAgree ==
    /\ (Done("palindrome") /\ NoSelfComplement(sequence, dna)) =>
           ret_str = palindrome2(sequence, dna).str
    /\ (Done("palindrome2") /\ NoSelfComplement(sequence, dna)) =>
           ret_str = palindrome(sequence, dna).str

C19_Witness ==
    /\ Done("palindrome2")
    /\ IsCanonical(sequence, dna)
    /\ NoSelfComplement(sequence, dna)
    /\ Len(sequence) = 4
    /\ Len(ret_str) = 2
    /\ ret_str # SubSeq(sequence, 1, 2)

\* How many times nrepeats compared the symbol at buffer position j.
TimesCompared(j) == Cardinality({ i \in 1..Len(compared) : compared[i] = j })
ComparedPositions == { compared[i] : i \in 1..Len(compared) }

====
